---- MODULE Spec2Model ----
(***************************************************************************)
(* A model of the Preql core: the interpreter State with its alias counter *)
(* (interp_common.py), the cast rules (casts.py), and the table / column / *)
(* query / autojoin objects (pql_objects.py).                              *)
(*                                                                         *)
(* Python strings are sequences of one-character strings, so that string   *)
(* concatenation, str(int) and str.replace are computed as the code does.  *)
(***************************************************************************)
EXTENDS Integers, Sequences, FiniteSets, TLC

VARIABLES
    states,     \* the State objects: <<[ns, tick]>>, states[1] the original
    aliases,    \* per State, the strings get_alias returned, in call order
    castIn,     \* the instance given to _cast
    castTo,     \* the target type given to _cast
    mysql,      \* state.db.target is mysql
    castOut,    \* <<>> before the call, then <<what _cast returned or raised>>
    joinables,  \* the JoinableTable instances: <<[name, joins, aliases]>>, the first the root
    columnRefs, \* the ColumnRef objects
    MAKE_ALIAS, \* the next value of the MAKE_ALIAS iterator
    used,       \* <<table instance, column name>> of the columns dereferenced by name
    lookup,     \* the outcome of the last scope operation on states[1]
    outcome,    \* the outcome of the last operation on the tables and columns
    fieldObjs,  \* the field objects queries are built from: ColumnRef, CountField, Array
    queries,    \* the Query constructions made, in order: what was given, what came of it
    columns     \* <<>>, or <<q, d>>: the last _columns evaluated, d of queries[q]

aliasVars == <<states, aliases, lookup>>
castVars == <<castIn, castTo, mysql, castOut>>
joinVars == <<joinables, columnRefs, MAKE_ALIAS, used, outcome>>
queryVars == <<fieldObjs, queries, columns>>
vars == <<aliasVars, castVars, joinVars, queryVars>>

----------------------------------------------------------------------------
(* Bounds *)

MaxTables == 3         \* JoinableTable instances alive in one compilation
MaxCols == 3           \* ColumnRef objects alive in one compilation
MaxJoins == 3          \* add_autojoin is not called directly on a table holding this many joins
MaxQueries == 2        \* Query objects constructed in one compilation
MaxFields == 2         \* fields and aggregated fields given to the queries of one compilation
MaxLowered == 1        \* Query objects constructed in a compilation that lowers and decodes them
MaxScopes == 3         \* push_scope is not called on a stack of this many scopes
MaxTick == 11          \* get_alias is not called on a State whose tick reached this
MaxCopyCalls == 1      \* get_alias calls made on a copied State

----------------------------------------------------------------------------
(* Python string primitives *)

DigitChar == <<"0", "1", "2", "3", "4", "5", "6", "7", "8", "9">>

RECURSIVE Str(_)
\* str(n) for a non-negative int
Str(n) == IF n < 10 THEN <<DigitChar[n + 1]>>
          ELSE Str(n \div 10) \o <<DigitChar[(n % 10) + 1]>>

\* reversed(q)
Reverse(q) == [i \in 1..Len(q) |-> q[Len(q) + 1 - i]]

\* s.replace('.', '_')
ReplaceDot(s) == [i \in 1..Len(s) |-> IF s[i] = "." THEN "_" ELSE s[i]]

----------------------------------------------------------------------------
(* interp_common.py: State and get_alias *)

EmptyScope == [n \in {} |-> 0]

\* State.__init__
NewState == [ns |-> <<EmptyScope>>, tick |-> 0]

\* State.__copy__
CopyOf(s) == [ns |-> [i \in 1..Len(s.ns) |-> s.ns[i]], tick |-> s.tick]

\* the objects get_alias is called with: a base string, or a TableInstance
\* (whose type name is used as the base)
AliasObjs == { [kind |-> "str", name |-> <<"a">>],
               [kind |-> "str", name |-> <<"a", "1">>],
               [kind |-> "table", name |-> <<"a">>] }

\* the base string get_alias ends up with (the TableInstance case recurses once)
AliasBase(obj) == obj.name

\* the string get_alias returns once tick has been incremented to t
AliasString(base, t) == base \o Str(t)

GetAlias(i, obj) ==
    /\ UNCHANGED <<castVars, joinVars, queryVars>>
    /\ i \in 1..Len(states)
    /\ states[i].tick < MaxTick
    /\ i > 1 => Len(aliases[i]) < MaxCopyCalls
    /\ states' = [states EXCEPT ![i].tick = @ + 1]
    /\ aliases' = [aliases EXCEPT
                     ![i] = Append(@, AliasString(AliasBase(obj), states[i].tick + 1))]
    /\ UNCHANGED lookup

CopyState ==
    /\ UNCHANGED <<castVars, joinVars, queryVars>>
    /\ Len(states) = 1
    /\ states' = Append(states, CopyOf(states[1]))
    /\ aliases' = Append(aliases, <<>>)
    /\ UNCHANGED lookup

\* no scope operation was made
NoLookup == [op |-> "init", name |-> "", error |-> "", value |-> "", scope |-> EmptyScope]

AliasStart ==
    /\ states = <<NewState>>
    /\ aliases = << <<>> >>
    /\ lookup = NoLookup

AliasNext ==
    \/ \E i \in 1..2, obj \in AliasObjs : GetAlias(i, obj)
    \/ CopyState

----------------------------------------------------------------------------
(* interp_common.py: the scope stack of a State.  A scope is a function    *)
(* from the names it defines to their values.                              *)

ScopeNames == {"x", "y"}
\* the values bound; an ast.Name is no value
ScopeValues == {"v1", "v2"}
NameValue == "ast.Name"

\* the scopes in the order get_var looks at them, as they are on the stack
StackOrder(ns) == ns

\* the scopes in the order get_var looks at them: reversed(self.ns)
LookupOrder(ns) == Reverse(ns)

RECURSIVE FirstDefining(_, _)
\* the loop of get_var over the scopes in order: the value of the first scope
\* that has the name, else pql_NameNotFound
FirstDefining(scopes, name) ==
    IF scopes = <<>> THEN [error |-> "pql_NameNotFound", value |-> ""]
    ELSE IF name \in DOMAIN Head(scopes)
    THEN [error |-> "", value |-> Head(scopes)[name]]
    ELSE FirstDefining(Tail(scopes), name)

\* State.get_var
get_var(ns, name) == FirstDefining(LookupOrder(ns), name)

\* scope[name] = value
SetItem(scope, name, value) ==
    [n \in DOMAIN scope \cup {name} |-> IF n = name THEN value ELSE scope[n]]

\* State.get_var(name) on states[1]
GetVar(name) ==
    /\ lookup' = [op |-> "get_var", name |-> name,
                  error |-> get_var(states[1].ns, name).error,
                  value |-> get_var(states[1].ns, name).value, scope |-> EmptyScope]
    /\ lookup' # lookup
    /\ UNCHANGED <<states, aliases, castVars, joinVars, queryVars>>

\* State.set_var(name, value) on states[1]: the assertion, then self.ns[-1]
SetVar(name, value) ==
    /\ IF value = NameValue
       THEN /\ lookup' = [op |-> "set_var", name |-> name, error |-> "AssertionError",
                          value |-> value, scope |-> EmptyScope]
            /\ UNCHANGED states
       ELSE IF states[1].ns = <<>>
       THEN /\ lookup' = [op |-> "set_var", name |-> name, error |-> "IndexError",
                          value |-> value, scope |-> EmptyScope]
            /\ UNCHANGED states
       ELSE /\ lookup' = [op |-> "set_var", name |-> name, error |-> "",
                          value |-> value, scope |-> EmptyScope]
            /\ states' = [states EXCEPT ![1].ns[Len(states[1].ns)] =
                                            SetItem(@, name, value)]
    /\ <<lookup, states>>' # <<lookup, states>>
    /\ UNCHANGED <<aliases, castVars, joinVars, queryVars>>

\* State.push_scope() on states[1]
PushScope ==
    /\ Len(states[1].ns) < MaxScopes
    /\ states' = [states EXCEPT ![1].ns = Append(@, EmptyScope)]
    /\ lookup' = [op |-> "push_scope", name |-> "", error |-> "", value |-> "",
                  scope |-> EmptyScope]
    /\ UNCHANGED <<aliases, castVars, joinVars, queryVars>>

\* State.pop_scope() on states[1]: self.ns.pop()
PopScope ==
    /\ IF states[1].ns = <<>>
       THEN /\ lookup' = [op |-> "pop_scope", name |-> "", error |-> "IndexError",
                          value |-> "", scope |-> EmptyScope]
            /\ UNCHANGED states
       ELSE /\ lookup' = [op |-> "pop_scope", name |-> "", error |-> "", value |-> "",
                          scope |-> states[1].ns[Len(states[1].ns)]]
            /\ states' = [states EXCEPT ![1].ns = SubSeq(@, 1, Len(@) - 1)]
    /\ <<lookup, states>>' # <<lookup, states>>
    /\ UNCHANGED <<aliases, castVars, joinVars, queryVars>>

ScopeNext ==
    \/ \E name \in ScopeNames : GetVar(name)
    \/ \E name \in ScopeNames, value \in ScopeValues \cup {NameValue} : SetVar(name, value)
    \/ PushScope
    \/ PopScope

----------------------------------------------------------------------------
(* Claims about the alias counter *)

\* the tick of every State never decreases
TickMonotonic ==
    [][\A i \in 1..Len(states) : states'[i].tick >= states[i].tick]_vars

\* on every State, any two get_alias calls returned different strings
AliasesCollisionFree ==
    \A s \in 1..Len(states) :
        \A i, j \in 1..Len(aliases[s]) :
            i # j => aliases[s][i] # aliases[s][j]

\* C7: the alias counter of a State only increases across get_alias calls, and
\* any two get_alias calls on the same State, with any base names, return
\* different alias strings.
C7_AliasCounterCollisionFree == TickMonotonic /\ []AliasesCollisionFree

----------------------------------------------------------------------------
(* The type lattice the cast rules query (pql_types): a type is a kind and *)
(* its named element types; list[T] has the one element 'value'.           *)

ConcreteKinds == {"int", "float", "bool", "string", "t_id", "t_relation", "null",
                  "list", "table", "aggregate", "vectorized"}

\* the kind directly above a kind
KindParent(k) ==
    IF k \in {"int", "float", "bool", "string", "t_id", "t_relation"} THEN "primitive"
    ELSE "any"

\* subtype-of on kinds: reflexive, transitive, 'any' on top
KindLe(a, b) == a = b \/ b = "any" \/ KindParent(a) = b

Ty(k) == [k |-> k, elems |-> <<>>]
ListOf(t) == [k |-> "list", elems |-> <<[name |-> "value", type |-> t]>>]
TableOf(cols) == [k |-> "table", elems |-> cols]
AggregateOf(t) == [k |-> "aggregate", elems |-> <<[name |-> "elem", type |-> t]>>]
VectorizedOf(t) == [k |-> "vectorized", elems |-> <<[name |-> "elem", type |-> t]>>]

\* Type.elem: the element type of a one-element type
Elem(t) == t.elems[1].type

RECURSIVE TypeLe(_, _)
\* a <= b: kinds ordered, element types covariant (a bare kind has no elements)
TypeLe(a, b) ==
    /\ KindLe(a.k, b.k)
    /\ \/ Len(b.elems) = 0
       \/ /\ Len(a.elems) = Len(b.elems)
          /\ \A i \in 1..Len(b.elems) :
                /\ a.elems[i].name = b.elems[i].name
                /\ TypeLe(a.elems[i].type, b.elems[i].type)

\* a dispatch pattern is a set of kinds (a union); a kind matches it when it
\* is below one of its members
Matches(k, pat) == \E q \in pat : KindLe(k, q)
PatLe(p, q) == \A k \in p : Matches(k, q)

----------------------------------------------------------------------------
(* SQL nodes and instances the casts build *)

SqlName(t, n) == [sql |-> "Name", type |-> t, name |-> n]
SqlCast(t, as, code) == [sql |-> "Cast", type |-> t, astype |-> as, value |-> code]
SqlColumnAlias(code, alias) == [sql |-> "ColumnAlias", value |-> code, alias |-> alias]
SqlSelect(t, table, fields) == [sql |-> "Select", type |-> t, table |-> table, fields |-> fields]

\* Instance.make / ListInstance.make: the subqueries of the given instances are merged
MakeInstance(code, t, insts) ==
    [code |-> code, type |-> t,
     subqueries |-> UNION {insts[i].subqueries : i \in 1..Len(insts)},
     elem |-> <<>>]

\* the empty-list singleton, of type list[null]
EmptyList == [code |-> [sql |-> "EmptyList"], type |-> ListOf(Ty("null")),
              subqueries |-> {}, elem |-> <<>>]

\* objects.aggregate(inst)
Aggregate(inst) == [code |-> inst.code, type |-> AggregateOf(inst.type),
                    subqueries |-> inst.subqueries, elem |-> <<inst>>]

\* objects.unvectorized(inst)
Unvectorized(inst) == [inst EXCEPT !.type = Elem(inst.type)]

\* inst.get_column('value') of a list instance
ValueColumn(inst) ==
    [code |-> SqlName(Elem(inst.type), "value"), type |-> Elem(inst.type),
     subqueries |-> inst.subqueries, elem |-> <<>>]

Returned(inst) == [ok |-> TRUE, error |-> "", inst |-> <<inst>>]
Raised(err) == [ok |-> FALSE, error |-> err, inst |-> <<>>]

----------------------------------------------------------------------------
(* casts.py: the rules of _cast and their dispatch *)

CastRules ==
    { [rule |-> "fallback",      src |-> {"any"},           tgt |-> {"any"}],
      [rule |-> "list_list",     src |-> {"list"},          tgt |-> {"list"}],
      [rule |-> "agg_list",      src |-> {"aggregate"},     tgt |-> {"list"}],
      [rule |-> "table_list",    src |-> {"table"},         tgt |-> {"list"}],
      [rule |-> "id_int",        src |-> {"t_id"},          tgt |-> {"int"}],
      [rule |-> "to_int",        src |-> {"float", "bool"}, tgt |-> {"int"}],
      [rule |-> "to_float",      src |-> {"int", "bool"},   tgt |-> {"float"}],
      [rule |-> "to_string",     src |-> {"primitive"},     tgt |-> {"string"}],
      [rule |-> "vectorized",    src |-> {"vectorized"},    tgt |-> {"any"}],
      [rule |-> "relation_id",   src |-> {"t_relation"},    tgt |-> {"t_id"}] }

\* dp_type: the most specific rule whose patterns cover the two types
Dispatch(inst_type, target_type) ==
    LET applicable == {r \in CastRules : /\ Matches(inst_type.k, r.src)
                                         /\ Matches(target_type.k, r.tgt)}
    IN (CHOOSE r \in applicable :
            \A q \in applicable : PatLe(r.src, q.src) /\ PatLe(r.tgt, q.tgt)).rule

\* _cast(list, list); castElem is the recursive _cast of the 'value' column to
\* the target's element type, used only where the code reaches it
CastListList(inst_type, target_type, inst, castElem) ==
    IF inst = EmptyList THEN Returned([inst EXCEPT !.type = target_type])
    ELSE IF TypeLe(Elem(inst_type), Elem(target_type)) THEN Returned(inst)
    ELSE LET r == castElem
         IN IF ~r.ok THEN r
            ELSE LET elem == r.inst[1]
                     code == SqlSelect(target_type, inst.code,
                                       <<SqlColumnAlias(elem.code, "value")>>)
                 IN Returned([inst EXCEPT !.code = code, !.type = ListOf(elem.type)])

\* _cast(table, list) typing its result with the target type, not list[column type]
CastTableListAsTarget(inst_type, target_type, inst) ==
    LET t == inst.type IN
    IF Len(t.elems) # 1 THEN Raised("TypeError: Too many columns")
    ELSE IF ~TypeLe(Elem(inst_type), Elem(target_type))
         THEN Raised("TypeError: Elements not matching")
    ELSE LET elem_name == inst_type.elems[1].name
             elem_type == inst_type.elems[1].type
             code == SqlSelect(target_type, inst.code,
                        <<SqlColumnAlias(SqlName(elem_type, elem_name), "value")>>)
         IN Returned(MakeInstance(code, target_type, <<inst>>))

\* _cast(table, list)
CastTableList(inst_type, target_type, inst) ==
    LET t == inst.type IN
    IF Len(t.elems) # 1 THEN Raised("TypeError: Too many columns")
    ELSE IF ~TypeLe(Elem(inst_type), Elem(target_type))
         THEN Raised("TypeError: Elements not matching")
    ELSE LET elem_name == inst_type.elems[1].name
             elem_type == inst_type.elems[1].type
             code == SqlSelect(ListOf(elem_type), inst.code,
                        <<SqlColumnAlias(SqlName(elem_type, elem_name), "value")>>)
         IN Returned(MakeInstance(code, ListOf(elem_type), <<inst>>))

\* _cast(float|bool, int)
CastToInt(is_mysql, inst) ==
    LET t == IF is_mysql THEN "signed integer" ELSE "int"
    IN Returned(MakeInstance(SqlCast(Ty("int"), t, inst.code), Ty("int"), <<inst>>))

\* _cast(int|bool, float)
CastToFloat(inst) ==
    Returned(MakeInstance(SqlCast(Ty("float"), "float", inst.code), Ty("float"), <<inst>>))

\* _cast(primitive, string)
CastToString(inst) ==
    Returned(MakeInstance(SqlCast(Ty("string"), "varchar", inst.code), Ty("string"), <<inst>>))

RECURSIVE Cast(_, _, _, _)
\* _cast(state, inst_type, target_type, inst); is_mysql: state.db.target is mysql
Cast(is_mysql, inst_type, target_type, inst) ==
    LET rule == Dispatch(inst_type, target_type) IN
    CASE rule = "list_list" ->
            LET value == ValueColumn(inst)
                elem == Cast(is_mysql, value.type, Elem(target_type), value)
            IN CastListList(inst_type, target_type, inst, elem)
      [] rule = "agg_list" ->
            LET res == Cast(is_mysql, Elem(inst_type), Elem(target_type), inst.elem[1])
            IN IF res.ok THEN Returned(Aggregate(res.inst[1])) ELSE res
      [] rule = "table_list" -> CastTableList(inst_type, target_type, inst)
      [] rule = "id_int" -> Returned([inst EXCEPT !.type = Ty("int")])
      [] rule = "to_int" -> CastToInt(is_mysql, inst)
      [] rule = "to_float" -> CastToFloat(inst)
      [] rule = "to_string" -> CastToString(inst)
      [] rule = "vectorized" ->
            LET x == Unvectorized(inst) IN Cast(is_mysql, x.type, target_type, x)
      [] rule = "relation_id" -> Returned([inst EXCEPT !.type = target_type])
      [] OTHER -> Raised("TypeError: Cast not implemented")

----------------------------------------------------------------------------
(* The declared tables (ast.TableDef / ast.Column).  A relation column     *)
(* names its target table and the back-reference it declares there; the    *)
(* back-reference column records the declaring table and relation column.  *)

n_id == <<"i", "d">>
n_name == <<"n", "a", "m", "e">>
n_parent == <<"p", "a", "r", "e", "n", "t">>
n_children == <<"c", "h", "i", "l", "d", "r", "e", "n">>
n_dept == <<"d", "e", "p", "t">>
n_staff == <<"s", "t", "a", "f", "f">>
n_head == <<"h", "e", "a", "d">>
n_heads == <<"h", "e", "a", "d", "s">>
n_country == <<"c", "o", "u", "n", "t", "r", "y">>
n_cities == <<"c", "i", "t", "i", "e", "s">>
n_author == <<"a", "u", "t", "h", "o", "r">>
n_editor == <<"e", "d", "i", "t", "o", "r">>
n_authored == <<"a", "u", "t", "h", "o", "r", "e", "d">>
n_edited == <<"e", "d", "i", "t", "e", "d">>
n_count == <<"c", "o", "u", "n", "t">>
n_limit == <<"l", "i", "m", "i", "t">>
n_offset == <<"o", "f", "f", "s", "e", "t">>
n_order == <<"o", "r", "d", "e", "r">>
n_nosuch == <<"n", "o", "s", "u", "c", "h">>

NoName == <<>>      \* None, where a name is optional
NoError == <<>>     \* no exception was raised

IdColumn(t) ==
    [name |-> n_id, backref |-> NoName, type |-> [k |-> "IdType", table |-> t], table |-> t]
StringColumn(t, n) ==
    [name |-> n, backref |-> NoName, type |-> [k |-> "StringType"], table |-> t]
\* column n of table t referring to table target, declaring the back-reference br there
RelationColumn(t, n, target, br) ==
    [name |-> n, backref |-> br,
     type |-> [k |-> "RelationalType", table_name |-> target], table |-> t]
\* the back-reference column br that from.n declares on the table it refers to
BackRefColumn(br, from, n) ==
    [name |-> br, backref |-> n, type |-> [k |-> "BackRefType"], table |-> from]

TableNames == {"Person", "Emp", "Dept", "City", "Country", "Doc", "User"}

\* tabledef.columns, in declaration order
TableColumns(t) ==
    CASE t = "Person" ->
            <<IdColumn(t), StringColumn(t, n_name),
              RelationColumn(t, n_parent, "Person", n_children),
              BackRefColumn(n_children, "Person", n_parent)>>
      [] t = "Emp" ->
            <<IdColumn(t), RelationColumn(t, n_dept, "Dept", n_staff),
              BackRefColumn(n_heads, "Dept", n_head)>>
      [] t = "Dept" ->
            <<IdColumn(t), RelationColumn(t, n_head, "Emp", n_heads),
              BackRefColumn(n_staff, "Emp", n_dept)>>
      [] t = "City" ->
            <<IdColumn(t), RelationColumn(t, n_country, "Country", n_cities)>>
      [] t = "Country" ->
            <<IdColumn(t), StringColumn(t, n_name),
              BackRefColumn(n_cities, "City", n_country)>>
      [] t = "Doc" ->
            <<IdColumn(t), RelationColumn(t, n_author, "User", n_authored),
              RelationColumn(t, n_editor, "User", n_edited)>>
      [] t = "User" ->
            <<IdColumn(t), BackRefColumn(n_authored, "Doc", n_author),
              BackRefColumn(n_edited, "Doc", n_editor)>>

\* the attribute names looked up on a table of definition t: its columns, and
\* a name it does not declare
AttrNames(t) == {TableColumns(t)[i].name : i \in 1..Len(TableColumns(t))} \cup {n_nosuch}

SeqToSet(q) == {q[i] : i \in 1..Len(q)}

HasColumn(t, n) == \E i \in 1..Len(TableColumns(t)) : TableColumns(t)[i].name = n
ColumnIndex(t, n) == CHOOSE i \in 1..Len(TableColumns(t)) : TableColumns(t)[i].name = n
ColumnNamed(t, n) == TableColumns(t)[ColumnIndex(t, n)]

----------------------------------------------------------------------------
(* pql_objects.py: aliases *)

\* make_alias(base) when next(MAKE_ALIAS) yields n
make_alias(base, n) == ReplaceDot(base) \o Str(n)

----------------------------------------------------------------------------
(* pql_objects.py: JoinableTable and ColumnRef objects.  The objects live  *)
(* in a heap h = [tables, cols, next, used]: the JoinableTable instances   *)
(* (each with its StoredTable), the ColumnRef objects, the position of the *)
(* MAKE_ALIAS iterator, and the record of the columns dereferenced by name.*)

\* JoinableTable._init: no join; the StoredTable's columns are not built yet
NewJoinableTable(name) == [name |-> name, joins |-> <<>>, aliases |-> <<>>]

\* StoredTable._columns: built at the first access, one ColumnRef per declared
\* column, each taking its sql_alias from make_alias
Touch(h, t) ==
    IF h.tables[t].aliases # <<>> THEN h
    ELSE LET cs == TableColumns(h.tables[t].name)
         IN [h EXCEPT !.tables[t].aliases =
                          [i \in 1..Len(cs) |-> make_alias(cs[i].name, h.next + i - 1)],
                      !.next = @ + Len(cs)]

\* ColumnRef(col, table, sql_alias, pql_name)
NewColumnRef(col, table, sql_alias, pql_name) ==
    [col |-> col, table |-> table, sql_alias |-> sql_alias, pql_name |-> pql_name,
     relation |-> 0, backref |-> 0, invoked |-> FALSE, joined |-> FALSE]

\* the definition of the table a relation or back-reference column leads to
Referred(decl) ==
    IF decl.type.k = "RelationalType" THEN decl.type.table_name ELSE decl.table

\* ColumnRef.name
ColumnRefName(c) == IF c.pql_name # NoName THEN c.pql_name ELSE c.col.name

\* query_state.get_table(id(column), name): the table under a new context is a
\* new JoinableTable of that definition, the last of h.tables
GetTable(h, name) == [h EXCEPT !.tables = Append(@, NewJoinableTable(name))]

\* == of the dataclasses: by fields (tabledef; col, table, sql_alias, pql_name)
TableEq(h, a, b) == h.tables[a].name = h.tables[b].name
ColumnRefEq(h, a, b) ==
    /\ h.cols[a].col = h.cols[b].col
    /\ TableEq(h, h.cols[a].table, h.cols[b].table)
    /\ h.cols[a].sql_alias = h.cols[b].sql_alias
    /\ h.cols[a].pql_name = h.cols[b].pql_name
JoinEq(h, x, y) ==
    /\ TableEq(h, x.table, y.table)
    /\ x.is_fwd = y.is_fwd
    /\ ColumnRefEq(h, x.col, y.col)

\* join in self._joins
JoinIn(h, join, t) ==
    \E i \in 1..Len(h.tables[t].joins) : JoinEq(h, h.tables[t].joins[i], join)

\* add_autojoin appending without looking at the registered joins
add_autojoin_unchecked(h, t, table, is_fwd, col) ==
    [h EXCEPT !.tables[t].joins =
                  Append(@, [table |-> table, is_fwd |-> is_fwd, col |-> col])]

\* JoinableTable.add_autojoin
add_autojoin(h, t, table, is_fwd, col) ==
    LET join == [table |-> table, is_fwd |-> is_fwd, col |-> col]
    IN IF ~JoinIn(h, join, t)
       THEN [h EXCEPT !.tables[t].joins = Append(@, join)]
       ELSE h

\* invoked_by_user registering the join of a relation column as well, as soon
\* as the column is looked up
invoked_by_user_eager(h, c) ==
    IF h.cols[c].col.type.k = "BackRefType" /\ h.cols[c].backref = 0
    THEN LET h1 == GetTable(h, h.cols[c].col.table)
             backref == Len(h1.tables)
             h2 == add_autojoin(h1, h.cols[c].table, backref, FALSE, c)
         IN [h2 EXCEPT !.cols[c].backref = backref, !.cols[c].invoked = TRUE]
    ELSE IF h.cols[c].col.type.k = "RelationalType" /\ h.cols[c].relation = 0
    THEN LET h1 == GetTable(h, h.cols[c].col.type.table_name)
             relation == Len(h1.tables)
             h2 == add_autojoin(h1, h.cols[c].table, relation, TRUE, c)
         IN [h2 EXCEPT !.cols[c].relation = relation]
    ELSE h

\* invoked_by_user setting backref and invoked with no join registered
invoked_by_user_unjoined(h, c) ==
    IF h.cols[c].col.type.k = "BackRefType" /\ h.cols[c].backref = 0
    THEN LET h1 == GetTable(h, h.cols[c].col.table)
         IN [h1 EXCEPT !.cols[c].backref = Len(h1.tables), !.cols[c].invoked = TRUE]
    ELSE h

\* ColumnRef.invoked_by_user
invoked_by_user(h, c) ==
    IF h.cols[c].col.type.k = "BackRefType" /\ h.cols[c].backref = 0
    THEN LET h1 == GetTable(h, h.cols[c].col.table)
             backref == Len(h1.tables)
             h2 == add_autojoin(h1, h.cols[c].table, backref, FALSE, c)
         IN [h2 EXCEPT !.cols[c].backref = backref, !.cols[c].invoked = TRUE]
    ELSE h

\* a ColumnRef of an id or plain column has no join state (invoked_by_user does
\* nothing, getattr fails its assertion): only the others are kept in the heap
Kept(decl) == decl.type.k \in {"RelationalType", "BackRefType"}

\* Table.get_column on JoinableTable t: [h, ok, col, decl]; not ok is
\* PreqlError_Attribute; col is 0 for a ColumnRef that is not kept
get_column(h, t, name) ==
    LET h1 == Touch(h, t)
        tname == h1.tables[t].name
    IN IF ~HasColumn(tname, name) THEN [h |-> h1, ok |-> FALSE, col |-> 0, fresh |-> <<>>]
       ELSE LET i == ColumnIndex(tname, name)
                decl == TableColumns(tname)[i]
                fresh == NewColumnRef(decl, t, h1.tables[t].aliases[i], NoName)
            IN IF ~Kept(decl) THEN [h |-> h1, ok |-> TRUE, col |-> 0, fresh |-> <<fresh>>]
               ELSE LET h2 == [h1 EXCEPT !.cols = Append(@, fresh),
                                         !.used = IF decl.type.k = "BackRefType"
                                                  THEN @ \cup {<<t, name>>} ELSE @]
                        col == Len(h2.cols)
                    IN [h |-> invoked_by_user(h2, col), ok |-> TRUE, col |-> col,
                        fresh |-> <<fresh>>]

\* whether some registered join holds ColumnRef c
Registered(h, c) ==
    \E t \in 1..Len(h.tables) :
        \E i \in 1..Len(h.tables[t].joins) : h.tables[t].joins[i].col = c

\* the heap once the ColumnRef a get_column call made (the last one) is dropped
\* by its caller: the object stays only if a join holds it
Release(before, r) ==
    IF ~r.ok \/ r.col = 0 \/ Registered(r.h, r.col) THEN r.h
    ELSE [r.h EXCEPT !.cols = SubSeq(@, 1, r.col - 1),
                     !.tables = SubSeq(@, 1, Len(before.tables))]

\* ColumnRef.relation: the table is got at the first access
relation(h, c) ==
    IF h.cols[c].relation # 0 THEN h
    ELSE LET g == GetTable(h, h.cols[c].col.type.table_name)
         IN [g EXCEPT !.cols[c].relation = Len(g.tables)]

\* the table the attributes of ColumnRef c are looked up in
Target(h, c) ==
    IF h.cols[c].col.type.k = "BackRefType" THEN h.cols[c].backref ELSE h.cols[c].relation

\* getattr on a relation column, before the lookup: the join with the relation
\* is registered and joined is set
JoinRelation(h, c) ==
    [add_autojoin(h, h.cols[c].table, h.cols[c].relation, TRUE, c)
        EXCEPT !.cols[c].joined = TRUE,
               !.used = @ \cup {<<h.cols[c].table, h.cols[c].col.name>>}]

\* new_col.invoked_by_user(); return new_col (the last ColumnRef of h)
InvokedNew(h) ==
    [h |-> invoked_by_user(h, Len(h.cols)), error |-> NoError, col |-> Len(h.cols)]

\* the end of getattr on heap h: r is what get_column returned or raised,
\* new_col is made from the column it returned
NewColFrom(h, c, r) ==
    IF ~r.ok THEN [h |-> r.h, error |-> <<"PreqlError_Attribute">>, col |-> 0]
    ELSE IF ~Kept(r.fresh[1].col) THEN [h |-> Release(h, r), error |-> NoError, col |-> 0]
    ELSE InvokedNew([Release(h, r) EXCEPT !.cols =
             Append(@, NewColumnRef(r.fresh[1].col, r.fresh[1].table, r.fresh[1].sql_alias,
                                    ColumnRefName(h.cols[c]) \o <<".">> \o r.fresh[1].col.name))])

\* col = <the backref or the relation>.get_column(name), and what follows
LookUpThrough(h, c, name) == NewColFrom(h, c, get_column(h, Target(h, c), name))

\* ColumnRef.getattr: [h, error, col]
getattr(h, c, name) ==
    IF h.cols[c].col.type.k = "BackRefType"
    THEN IF h.cols[c].backref # 0 /\
              JoinIn(h, [table |-> h.cols[c].backref, is_fwd |-> FALSE, col |-> c],
                     h.cols[c].table)
         THEN LookUpThrough(h, c, name)
         ELSE [h |-> h, error |-> <<"AssertionError">>, col |-> 0]
    ELSE IF h.cols[c].col.type.k # "RelationalType"
    THEN [h |-> h, error |-> <<"AssertionError">>, col |-> 0]
    ELSE LookUpThrough(JoinRelation(relation(h, c), c), c, name)

----------------------------------------------------------------------------
(* pql_objects.py: lowering tables to SQL.  A table object is the          *)
(* StoredTable or the JoinableTable of a heap instance, or an AutoJoin of  *)
(* two table objects.                                                      *)

Stored(i) == [obj |-> "StoredTable", inst |-> i]
Joinable(i) == [obj |-> "JoinableTable", inst |-> i]
AutoJoin(tables, is_fwd, col) ==
    [obj |-> "AutoJoin", tables |-> tables, is_fwd |-> is_fwd, col |-> col]

\* Table.base_table / AutoJoin.base_table
base_table(x) == IF x.obj = "AutoJoin" THEN x.tables[1] ELSE x

\* the declared columns behind x._columns; an AutoJoin has TableFields only
DeclaredColumns(h, x) ==
    IF x.obj = "AutoJoin" THEN <<>> ELSE TableColumns(h.tables[x.inst].name)

\* Table.cols_by_type: the declared columns of the type, in order
cols_by_type(h, x, kind) ==
    SelectSeq(DeclaredColumns(h, x), LAMBDA c : c.type.k = kind)

\* evaluating x._columns builds the StoredTable's columns if need be
TouchObj(h, x) == IF x.obj = "AutoJoin" THEN h ELSE Touch(h, x.inst)

\* x.get_column(name).sql_alias, for a column that is no back-reference
AliasOf(h, x, name) ==
    h.tables[x.inst].aliases[ColumnIndex(h.tables[x.inst].name, name)]

SqlTableRef(n) == [sql |-> "TableRef", table_name |-> n]
SqlColumnRef(a) == [sql |-> "ColumnRef", column |-> a]
SqlCompare(op, exprs) == [sql |-> "Compare", op |-> op, exprs |-> exprs]
SqlJoin(t, tables, conds, join_op) ==
    [sql |-> "Join", type |-> t, tables |-> tables, conds |-> conds, join_op |-> join_op]

\* StoredTable.to_sql: its ColumnRefs are never invoked, so sql_projection is
\* the columns that are no back-references
StoredToSql(h, x) ==
    LET cs == TableColumns(h.tables[x.inst].name)
        idx == SelectSeq([i \in 1..Len(cs) |-> i], LAMBDA i : cs[i].type.k # "BackRefType")
    IN SqlSelect(x, SqlTableRef(h.tables[x.inst].name),
                 [n \in 1..Len(idx) |->
                     SqlColumnAlias(SqlColumnRef(cs[idx[n]].name),
                                    h.tables[x.inst].aliases[idx[n]])])

RECURSIVE JoinsOver(_, _, _)
\* JoinableTable.to_sql: the AutoJoins folded over the first n joins of instance i
JoinsOver(h, i, n) ==
    IF n = 0 THEN Stored(i)
    ELSE LET j == h.tables[i].joins[n]
         IN AutoJoin(<<JoinsOver(h, i, n - 1), Joinable(j.table)>>, j.is_fwd, j.col)

\* the candidate edges AutoJoin.to_sql collects, as <<source, column, destination>>
ToJoin(h, tables, is_fwd, col_name) ==
    LET relations == [i \in 1..2 |-> cols_by_type(h, base_table(tables[i]), "RelationalType")]
        table1 == cols_by_type(h, base_table(tables[1]), "IdType")[1].type.table
        table2 == cols_by_type(h, base_table(tables[2]), "IdType")[1].type.table
        keep1 == SelectSeq(relations[1], LAMBDA c :
                     c.type.table_name = table2 /\ (is_fwd \/ c.name = col_name))
        keep2 == SelectSeq(relations[2], LAMBDA c :
                     c.type.table_name = table1 /\ (is_fwd \/ c.name = col_name))
    IN [i \in 1..Len(keep1) |-> <<tables[1], keep1[i], tables[2]>>]
       \o [i \in 1..Len(keep2) |-> <<tables[2], keep2[i], tables[1]>>]

\* keeping the first candidate whatever the others are
CollapseToFirst(to_join) == SubSeq(to_join, 1, IF Len(to_join) > 0 THEN 1 ELSE 0)

\* no collapse of mirror images
CollapseNothing(to_join) == to_join

\* the mirror-image hack: two candidates, the second the reverse of the first
Collapse(to_join) ==
    IF Len(to_join) = 2 /\ Reverse(to_join[2]) = to_join[1]
    THEN SubSeq(to_join, 1, 1)
    ELSE to_join

Lowered(h, sql) == [h |-> h, error |-> NoError, sql |-> <<sql>>]
Failed(h, error) == [h |-> h, error |-> error, sql |-> <<>>]

\* tables, reversed for a reverse join
JoinTables(x) == IF x.is_fwd THEN x.tables ELSE Reverse(x.tables)

\* table1 / table2: the table named by the type of the id column
IdTable(h, table) == cols_by_type(h, base_table(table), "IdType")[1].type.table

SqlColumnRefs(exprs) == [sql |-> "ColumnRefs", exprs |-> exprs]

\* [c.to_sql() for c in t.sql_projection.values()] on JoinableTable t, its
\* columns built: its ColumnRefs are new ones, none invoked and none joined, so
\* these are the columns that are no back-references, each by its alias
ProjectionToSql(h, t) ==
    LET cs == TableColumns(h.tables[t].name)
        idx == SelectSeq([i \in 1..Len(cs) |-> i], LAMBDA i : cs[i].type.k # "BackRefType")
    IN [n \in 1..Len(idx) |-> SqlColumnRef(h.tables[t].aliases[idx[n]])]

\* ColumnRef.to_sql: [h, error, sql]
ColumnRef_to_sql(h, c) ==
    IF h.cols[c].col.type.k = "BackRefType"
    THEN IF h.cols[c].backref = 0 \/ ~h.cols[c].invoked
         THEN Failed(h, <<"AssertionError">>)
         ELSE Lowered(Touch(h, h.cols[c].backref),
                      SqlColumnRef(AliasOf(Touch(h, h.cols[c].backref),
                                           Joinable(h.cols[c].backref), n_id)))
    ELSE IF h.cols[c].joined
    THEN IF h.cols[c].col.type.k # "RelationalType"
         THEN Failed(h, <<"AssertionError">>)
         ELSE Lowered(Touch(relation(h, c), relation(h, c).cols[c].relation),
                      SqlColumnRefs(ProjectionToSql(
                          Touch(relation(h, c), relation(h, c).cols[c].relation),
                          relation(h, c).cols[c].relation)))
    ELSE Lowered(h, SqlColumnRef(h.cols[c].sql_alias))

RECURSIVE to_sql(_, _)

\* the Join of source and destination always in that order, as an inner join
JoinOfInner(x, edge, s, d) ==
    IF d.error # NoError THEN d
    ELSE Lowered(d.h,
             SqlJoin(x, <<s.sql[1], d.sql[1]>>,
                     <<SqlCompare("=",
                         <<SqlColumnRef(AliasOf(d.h, base_table(edge[1]), edge[2].name)),
                           SqlColumnRef(AliasOf(d.h, base_table(edge[3]), n_id))>>)>>,
                     ""))

\* the end of AutoJoin.to_sql: the Join of the lowered source s and the lowered
\* destination d of the edge <<src_table, rel, dst_table>>
JoinOf(x, edge, s, d) ==
    IF d.error # NoError THEN d
    ELSE Lowered(d.h,
             SqlJoin(x,
                     IF x.is_fwd THEN <<s.sql[1], d.sql[1]>> ELSE <<d.sql[1], s.sql[1]>>,
                     <<SqlCompare("=",
                         <<SqlColumnRef(AliasOf(d.h, base_table(edge[1]), edge[2].name)),
                           SqlColumnRef(AliasOf(d.h, base_table(edge[3]), n_id))>>)>>,
                     IF x.is_fwd THEN "" ELSE "left"))

\* dst_table.to_sql(), once src_table.to_sql() gave s
LowerDst(x, edge, s) ==
    IF s.error # NoError THEN s ELSE JoinOf(x, edge, s, to_sql(s.h, edge[3]))

\* AutoJoin.to_sql from the candidates to_join on
LowerEdges(h, x, tables, to_join) ==
    IF Len(to_join) > 1
    THEN Failed(h, <<"More than 1 relation between",
                     IdTable(h, tables[1]), IdTable(h, tables[2])>>)
    ELSE IF Len(to_join) = 0 THEN Failed(h, <<"ValueError">>)
    ELSE LowerDst(x, to_join[1], to_sql(h, to_join[1][1]))

\* AutoJoin.to_sql on the tables in join order, their columns built
LowerAutoJoin(h, x, tables) ==
    IF \E i \in 1..2 : Len(cols_by_type(h, base_table(tables[i]), "IdType")) # 1
    THEN Failed(h, <<"ValueError">>)
    ELSE IF x.col = 0 THEN Failed(h, <<"AttributeError">>)
    ELSE LowerEdges(h, x, tables,
                    Collapse(ToJoin(h, tables, x.is_fwd, h.cols[x.col].col.backref)))

\* x.to_sql(): [h, error, sql]
to_sql(h, x) ==
    IF x.obj = "StoredTable"
    THEN Lowered(Touch(h, x.inst), StoredToSql(Touch(h, x.inst), x))
    ELSE IF x.obj = "JoinableTable"
    THEN to_sql(h, JoinsOver(h, x.inst, Len(h.tables[x.inst].joins)))
    ELSE LowerAutoJoin(TouchObj(TouchObj(h, base_table(JoinTables(x)[1])),
                                base_table(JoinTables(x)[2])),
                       x, JoinTables(x))

----------------------------------------------------------------------------
(* The operations of one compilation on the root table and its columns *)

Heap == [tables |-> joinables, cols |-> columnRefs, next |-> MAKE_ALIAS, used |-> used]

\* the heap h becomes the state, within the bounds
Becomes(h) ==
    /\ Len(h.tables) <= MaxTables
    /\ Len(h.cols) <= MaxCols
    /\ joinables' = h.tables
    /\ columnRefs' = h.cols
    /\ MAKE_ALIAS' = h.next
    /\ used' = h.used

Outcome(op, error, col, sql) == [op |-> op, error |-> error, col |-> col, sql |-> sql]

MethodNames == {n_count, n_limit, n_offset, n_order}
\* the method name that is looked up
TriedMethods == {n_count}

\* Table.getattr(name) on the root table: the column, else a table method, else
\* PreqlError_Attribute
TableGetattr(name) ==
    LET r == get_column(Heap, 1, name) IN
    /\ Becomes(r.h)
    /\ outcome' = IF r.ok THEN Outcome("Table.getattr", NoError, r.col, <<>>)
              ELSE IF name \in MethodNames
                   THEN Outcome("Table.getattr", NoError, 0, <<[method |-> name]>>)
              ELSE Outcome("Table.getattr", <<"PreqlError_Attribute">>, 0, <<>>)
    /\ UNCHANGED <<aliasVars, castVars, queryVars>>

\* ColumnRef.getattr(name) on the ColumnRef c
ColumnGetattr(c, name) ==
    /\ LET r == getattr(Heap, c, name) IN
        /\ Becomes(r.h)
        /\ outcome' = Outcome("ColumnRef.getattr", r.error, r.col, <<>>)
    /\ UNCHANGED <<aliasVars, castVars, queryVars>>

\* ColumnRef.to_sql() on the ColumnRef c
ColumnToSql(c) ==
    /\ LET r == ColumnRef_to_sql(Heap, c) IN
        /\ Becomes(r.h)
        /\ outcome' = Outcome("ColumnRef.to_sql", r.error, c, r.sql)
    /\ UNCHANGED <<aliasVars, castVars, queryVars>>

\* JoinableTable.to_sql() on the root table
TableToSql ==
    /\ LET r == to_sql(Heap, Joinable(1)) IN
        /\ Becomes(r.h)
        /\ outcome' = Outcome("JoinableTable.to_sql", r.error, 0, r.sql)
    /\ UNCHANGED <<aliasVars, castVars, queryVars>>

\* TableVariable(name, table): its _columns are those of the table it names
TableVariable(name, table) == table

\* create_autojoin(a=t1, b=t2) on the JoinableTables t1 and t2: AutoJoin(tables),
\* is_fwd and col left at their defaults True and None
create_autojoin(t1, t2) ==
    AutoJoin(<<TableVariable("a", Joinable(t1)), TableVariable("b", Joinable(t2))>>, TRUE, 0)

\* create_autojoin(a=t1, b=t2).to_sql()
ExplicitToSql(t1, t2) ==
    /\ LET r == to_sql(Heap, create_autojoin(t1, t2)) IN
        /\ Becomes(r.h)
        /\ outcome' = Outcome("create_autojoin.to_sql", r.error, <<t1, t2>>, r.sql)
    /\ UNCHANGED <<aliasVars, castVars, queryVars>>

\* JoinableTable.add_autojoin(table, is_fwd, col) called on instance t, with a
\* table made after t (as every table get_table hands to a column of t is)
CallAddAutojoin(t, table, is_fwd, col) ==
    /\ t < table
    /\ Len(joinables[t].joins) < MaxJoins
    /\ Becomes(add_autojoin(Heap, t, table, is_fwd, col))
    /\ outcome' = Outcome("add_autojoin", NoError, 0, <<>>)
    /\ UNCHANGED <<aliasVars, castVars, queryVars>>

RECURSIVE LookedUp(_, _)
\* the heap after get_column of each of the declared columns on the root table,
\* and .relation of each relation column got
LookedUp(h, decls) ==
    IF decls = <<>> THEN h
    ELSE LET r == get_column(h, 1, Head(decls).name)
         IN LookedUp(IF Head(decls).type.k = "RelationalType" THEN relation(r.h, r.col)
                     ELSE r.h,
                     Tail(decls))

\* the definitions a compilation starts from ("Dept" mirrors "Emp")
RootNames == TableNames \ {"Dept"}

JoinStart ==
    /\ \E root \in RootNames : joinables = <<NewJoinableTable(root)>>
    /\ columnRefs = <<>>
    /\ MAKE_ALIAS = 0
    /\ used = {}
    /\ outcome = Outcome("init", NoError, 0, <<>>)

\* a root table whose relation and back-reference columns were looked up, and
\* the tables they lead to
AddStart ==
    /\ \E root \in RootNames :
          LET h == LookedUp([tables |-> <<NewJoinableTable(root)>>, cols |-> <<>>,
                             next |-> 0, used |-> {}],
                            SelectSeq(TableColumns(root), Kept))
          IN /\ joinables = h.tables
             /\ columnRefs = h.cols
             /\ MAKE_ALIAS = h.next
             /\ used = h.used
    /\ outcome = Outcome("init", NoError, 0, <<>>)

\* no table is used
JoinIdle ==
    /\ joinables = <<>>
    /\ columnRefs = <<>>
    /\ MAKE_ALIAS = 0
    /\ used = {}
    /\ outcome = Outcome("init", NoError, 0, <<>>)

----------------------------------------------------------------------------
(* pql_objects.py: Query.  The field objects live in fieldObjs; a query    *)
(* holds its fields by reference (their positions in fieldObjs).           *)

n_count_ == <<"c", "o", "u", "n", "t", "_">>

\* ColumnRef(col, table, sql_alias): a field that arrives with its alias
ColumnRefField(decl, sql_alias) ==
    [cls |-> "ColumnRef", decl |-> <<decl>>, obj |-> 0, sql_alias |-> sql_alias]
\* CountField(obj): no sql_alias attribute
CountField(obj) == [cls |-> "CountField", decl |-> <<>>, obj |-> obj, sql_alias |-> NoName]
\* Array(expr): no sql_alias attribute
ArrayOf(expr) == [cls |-> "Array", decl |-> <<>>, obj |-> expr, sql_alias |-> NoName]

\* f.type
FieldType(objs, f) ==
    CASE objs[f].cls = "ColumnRef" -> objs[f].decl[1].type.k
      [] objs[f].cls = "CountField" -> "Integer"
      [] objs[f].cls = "Array" -> "ArrayType"

RECURSIVE FieldName(_, _)
\* f.name
FieldName(objs, f) ==
    CASE objs[f].cls = "ColumnRef" -> objs[f].decl[1].name
      [] objs[f].cls = "CountField" -> n_count_ \o FieldName(objs, objs[f].obj)
      [] objs[f].cls = "Array" -> FieldName(objs, objs[f].obj)

\* the check of self.fields that never raises
MisplacedNever(objs, fields) == FALSE

\* a field of the list is typed as a back-reference
Misplaced(objs, fields) ==
    \E i \in 1..Len(fields) : FieldType(objs, fields[i]) = "BackRefType"

\* list(self.table._columns.values()) on a JoinableTable: a new ColumnRef per
\* column of its StoredTable, with the StoredTable's alias
TableColumnFields(table) ==
    [i \in 1..Len(TableColumns(table.name)) |->
        ColumnRefField(TableColumns(table.name)[i], table.aliases[i])]

RECURSIVE WrapAggregated(_, _, _)
\* self._agg_fields: Array(f) for every f that is no Integer
WrapAggregated(objs, agg_fields, done) ==
    IF agg_fields = <<>> THEN [objs |-> objs, agg |-> done]
    ELSE LET f == Head(agg_fields)
         IN IF FieldType(objs, f) # "Integer"
            THEN WrapAggregated(Append(objs, ArrayOf(f)), Tail(agg_fields),
                                Append(done, Len(objs) + 1))
            ELSE WrapAggregated(objs, Tail(agg_fields), Append(done, f))

RECURSIVE AssignAliases(_, _)
\* the loop over self._fields + self._agg_fields: make_alias(f.name) for every
\* field whose sql_alias is None; q = [objs, next]
AssignAliases(q, all) ==
    IF all = <<>> THEN q
    ELSE LET f == Head(all)
         IN AssignAliases(
                IF q.objs[f].sql_alias = NoName
                THEN [objs |-> [q.objs EXCEPT ![f].sql_alias =
                                    make_alias(FieldName(q.objs, f), q.next)],
                      next |-> q.next + 1]
                ELSE q,
                Tail(all))

\* Query._init on table (a touched JoinableTable) with fields and agg_fields:
\* [objs, next, error, _fields, _agg_fields]
Query_init(objs, next, table, fields, agg_fields) ==
    IF Misplaced(objs, fields)
    THEN [objs |-> objs, next |-> next, error |-> <<"TypeError">>,
          _fields |-> <<>>, _agg_fields |-> <<>>]
    ELSE LET objs1 == IF fields # <<>> THEN objs ELSE objs \o TableColumnFields(table)
             _fields == IF fields # <<>> THEN fields
                        ELSE [i \in 1..Len(TableColumns(table.name)) |-> Len(objs) + i]
             w == WrapAggregated(objs1, agg_fields, <<>>)
             q == AssignAliases([objs |-> w.objs, next |-> next], _fields \o w.agg)
         IN [objs |-> q.objs, next |-> q.next, error |-> NoError,
             _fields |-> _fields, _agg_fields |-> w.agg]

RECURSIVE DictOf(_)
\* the dict {key: value} built from the <<key, value>> items in order: the
\* last value of a key stays
DictOf(items) ==
    IF items = <<>> THEN {}
    ELSE LET last == items[Len(items)]
             rest == DictOf(SubSeq(items, 1, Len(items) - 1))
         IN {kv \in rest : kv[1] # last[1]} \cup {last}

\* Query._columns: {f.name: ColumnValueRef(f, f.sql_alias)}, as <<name, alias>>
Query_columns(objs, q) ==
    LET all == q._fields \o q._agg_fields
    IN DictOf([i \in 1..Len(all) |-> <<FieldName(objs, all[i]), objs[all[i]].sql_alias>>])

\* the fields given to the queries constructed so far
FieldsGiven(qs) ==
    LET n[i \in 0..Len(qs)] ==
            IF i = 0 THEN 0 ELSE n[i - 1] + Len(qs[i].fields) + Len(qs[i].agg_fields)
    IN n[Len(qs)]

\* Query(table, fields=fields, agg_fields=agg_fields) on the root table
NewQuery(fields, agg_fields) ==
    /\ Len(queries) < MaxQueries
    /\ FieldsGiven(queries) + Len(fields) + Len(agg_fields) <= MaxFields
    /\ LET r == Query_init(fieldObjs, MAKE_ALIAS, joinables[1], fields, agg_fields) IN
        /\ fieldObjs' = r.objs
        /\ MAKE_ALIAS' = r.next
        /\ queries' = Append(queries, [fields |-> fields, agg_fields |-> agg_fields,
                                       error |-> r.error, _fields |-> r._fields,
                                       _agg_fields |-> r._agg_fields])
    /\ UNCHANGED <<aliasVars, castVars, joinables, columnRefs, used, outcome, columns>>

\* queries[q]._columns
GetColumns(q) ==
    /\ queries[q].error = NoError
    /\ columns' = <<q, Query_columns(fieldObjs, queries[q])>>
    /\ columns' # columns
    /\ UNCHANGED <<aliasVars, castVars, joinVars, fieldObjs, queries>>

\* the lists of at most n of the field objects
FieldLists(n) == UNION {[1..k -> 1..Len(fieldObjs)] : k \in 0..n}

QueryRoots == {"Person", "Country"}

\* a table whose columns are built, a ColumnRef of each of its columns (as
\* get_column hands them out), one more of its second column, and a CountField
\* of its id
QueryStart ==
    /\ \E root \in QueryRoots :
          LET h == Touch([tables |-> <<NewJoinableTable(root)>>, cols |-> <<>>,
                          next |-> 0, used |-> {}], 1)
          IN /\ joinables = h.tables
             /\ MAKE_ALIAS = h.next
             /\ fieldObjs = TableColumnFields(h.tables[1])
                              \o <<TableColumnFields(h.tables[1])[2], CountField(1)>>
    /\ columnRefs = <<>>
    /\ used = {}
    /\ outcome = Outcome("init", NoError, 0, <<>>)
    /\ queries = <<>>
    /\ columns = <<>>

\* no query is built
QueryIdle ==
    /\ fieldObjs = <<>>
    /\ queries = <<>>
    /\ columns = <<>>

----------------------------------------------------------------------------
(* pql_objects.py: lowering and decoding a Query.  The obj of a ColumnRef   *)
(* field is its ColumnRef in the heap when it is one that is kept there (a  *)
(* relation or back-reference column), else 0.                              *)

\* f.invoked, of a field typed as a back-reference
FieldInvoked(h, objs, f) == objs[f].obj # 0 /\ h.cols[objs[f].obj].invoked

\* not isinstance(f.type, ast.BackRefType) or f.invoked
Included(h, objs, f) == FieldType(objs, f) # "BackRefType" \/ FieldInvoked(h, objs, f)

RECURSIVE InvokeField(_, _, _)
\* f.invoked_by_user(): of the ColumnRef, of the expression of an Array; a
\* Function does nothing
InvokeField(h, objs, f) ==
    CASE objs[f].cls = "ColumnRef" ->
            IF objs[f].obj = 0 THEN h ELSE invoked_by_user(h, objs[f].obj)
      [] objs[f].cls = "Array" -> InvokeField(h, objs, objs[f].obj)
      [] objs[f].cls = "CountField" -> h

\* sql.CountField(code) / sql.MakeArray(code)
SqlWrapped(kind, r) ==
    IF r.error # NoError THEN r ELSE Lowered(r.h, [sql |-> kind, value |-> r.sql[1]])

RECURSIVE FieldToSql(_, _, _)
\* f.to_sql(): [h, error, sql]
FieldToSql(h, objs, f) ==
    CASE objs[f].cls = "ColumnRef" ->
            IF objs[f].obj = 0 THEN Lowered(h, SqlColumnRef(objs[f].sql_alias))
            ELSE ColumnRef_to_sql(h, objs[f].obj)
      [] objs[f].cls = "Array" -> SqlWrapped("MakeArray", FieldToSql(h, objs, objs[f].obj))
      [] objs[f].cls = "CountField" ->
            SqlWrapped("CountField", FieldToSql(h, objs, objs[f].obj))

\* the pair (f.to_sql(), f.sql_alias) added to the pairs of r, s being f.to_sql()
Paired(r, s, alias) ==
    IF s.error # NoError THEN s
    ELSE [h |-> s.h, error |-> NoError, sql |-> Append(r.sql, <<s.sql[1], alias>>)]

RECURSIVE FieldsToSql(_, _, _, _)
\* [(f.to_sql(), f.sql_alias) for f in fs], from its i-th field on
FieldsToSql(r, objs, fs, i) ==
    IF r.error # NoError \/ i > Len(fs) THEN r
    ELSE FieldsToSql(Paired(r, FieldToSql(r.h, objs, fs[i]), objs[fs[i]].sql_alias),
                     objs, fs, i + 1)

\* the fields of self._fields that Query.to_sql lowers
ToSqlFields(h, objs, q) == SelectSeq(q._fields, LAMBDA f : Included(h, objs, f))

\* the fields Query.from_sql_tuple decodes
FromSqlTupleFields(h, objs, q) ==
    SelectSeq(q._fields \o q._agg_fields, LAMBDA f : Included(h, objs, f))

\* Query._columns as {<<f.name, f>>}: the ColumnValueRef of a name is that of
\* the last field with the name
ColumnsOf(objs, q) ==
    DictOf([i \in 1..Len(q._fields \o q._agg_fields) |->
               <<FieldName(objs, (q._fields \o q._agg_fields)[i]),
                 (q._fields \o q._agg_fields)[i]>>])

\* Table.sql_projection of a Query
sql_projection(h, objs, q) == {kv \in ColumnsOf(objs, q) : Included(h, objs, kv[2])}

\* sql.ColumnAlias(f, a) if not isinstance(f, sql.ColumnRefs) else f
Aliased(pair) ==
    IF pair[1].sql = "ColumnRefs" THEN pair[1] ELSE SqlColumnAlias(pair[1], pair[2])

\* sql.Select(...) of the pairs of r, the first n of them the fields, and the
\* lowered table t
QuerySelect(q, r, t, n) ==
    IF t.error # NoError THEN t
    ELSE Lowered(t.h, [sql |-> "Select", type |-> "Query", table |-> t.sql[1],
                       fields |-> [i \in 1..Len(r.sql) |-> Aliased(r.sql[i])],
                       group_by |-> IF q._agg_fields # <<>>
                                    THEN [i \in 1..n |-> r.sql[i][1]] ELSE <<>>])

\* self.table.to_sql() once the fields are lowered, and the Select
QueryLowerTable(q, r, n) ==
    IF r.error # NoError THEN r ELSE QuerySelect(q, r, to_sql(r.h, Joinable(1)), n)

\* Query.to_sql on a query of the root table: [h, error, sql]
Query_to_sql(h, objs, q) ==
    QueryLowerTable(q,
        FieldsToSql([h |-> h, error |-> NoError, sql |-> <<>>], objs,
                    ToSqlFields(h, objs, q) \o q._agg_fields, 1),
        Len(ToSqlFields(h, objs, q)))

\* Query.from_sql_tuple on a row of width values: safezip of the fields and
\* the row, then Table.from_sql_tuple taking one value per column of
\* sql_projection and asserting that none is left
from_sql_tuple(h, objs, q, width) ==
    IF Len(FromSqlTupleFields(h, objs, q)) # width THEN <<"AssertionError">>
    ELSE IF Cardinality(sql_projection(h, objs, q)) > width THEN <<"ValueError">>
    ELSE IF Cardinality(sql_projection(h, objs, q)) < width THEN <<"AssertionError">>
    ELSE NoError

RECURSIVE Tracked(_, _, _)
\* the ColumnRefs that JoinableTable._columns made for the fields fs, from the
\* i-th on, kept in the heap: s = [h, objs]
Tracked(s, fs, i) ==
    IF i > Len(fs) THEN s
    ELSE Tracked(IF Kept(s.objs[fs[i]].decl[1])
                 THEN [h |-> [s.h EXCEPT !.cols =
                                 Append(@, NewColumnRef(s.objs[fs[i]].decl[1], 1,
                                                        s.objs[fs[i]].sql_alias, NoName))],
                       objs |-> [s.objs EXCEPT ![fs[i]].obj = Len(s.h.cols) + 1]]
                 ELSE s,
                 fs, i + 1)

\* the heap h and the field objects become the state
Holds(s) ==
    /\ joinables' = s.h.tables
    /\ columnRefs' = s.h.cols
    /\ used' = s.h.used
    /\ fieldObjs' = s.objs

\* Query(table, fields=fields, agg_fields=agg_fields) on the root table, the
\* ColumnRefs of its own fields kept in the heap
NewQueryOfTable(fields, agg_fields) ==
    /\ Len(queries) < MaxLowered
    /\ FieldsGiven(queries) + Len(fields) + Len(agg_fields) <= MaxFields
    /\ LET r == Query_init(fieldObjs, MAKE_ALIAS, joinables[1], fields, agg_fields) IN
        /\ Holds(Tracked([h |-> Heap, objs |-> r.objs],
                         IF fields = <<>> THEN r._fields ELSE <<>>, 1))
        /\ MAKE_ALIAS' = r.next
        /\ queries' = Append(queries, [fields |-> fields, agg_fields |-> agg_fields,
                                       error |-> r.error, _fields |-> r._fields,
                                       _agg_fields |-> r._agg_fields])
        /\ outcome' = Outcome("Query", r.error, Len(queries) + 1, <<>>)
    /\ UNCHANGED <<aliasVars, castVars, columns>>

\* the field of the name in queries[q]._columns
FieldNamed(q, name) ==
    (CHOOSE kv \in ColumnsOf(fieldObjs, queries[q]) : kv[1] = name)[2]

\* Table.get_column(name) on queries[q]
QueryGetColumn(q, name) ==
    /\ queries[q].error = NoError
    /\ IF \E kv \in ColumnsOf(fieldObjs, queries[q]) : kv[1] = name
       THEN /\ Holds([h |-> InvokeField(Heap, fieldObjs, FieldNamed(q, name)),
                      objs |-> fieldObjs])
            /\ outcome' = Outcome("Query.get_column", NoError, q, <<FieldNamed(q, name)>>)
       ELSE /\ outcome' = Outcome("Query.get_column", <<"PreqlError_Attribute">>, q, <<>>)
            /\ UNCHANGED <<joinables, columnRefs, used, fieldObjs>>
    /\ UNCHANGED <<aliasVars, castVars, MAKE_ALIAS, queries, columns>>

\* queries[q].to_sql(); the outcome holds the Select and the fields lowered
QueryToSql(q) ==
    /\ queries[q].error = NoError
    /\ LET r == Query_to_sql(Heap, fieldObjs, queries[q]) IN
        /\ joinables' = r.h.tables
        /\ columnRefs' = r.h.cols
        /\ MAKE_ALIAS' = r.h.next
        /\ used' = r.h.used
        /\ outcome' = Outcome("Query.to_sql", r.error, q,
                              IF r.error # NoError THEN <<>>
                              ELSE <<r.sql[1], ToSqlFields(Heap, fieldObjs, queries[q])
                                                  \o queries[q]._agg_fields>>)
    /\ UNCHANGED <<aliasVars, castVars, queryVars>>

\* queries[q].from_sql_tuple(tup) on a row of the query's own Select; the
\* outcome holds the fields zipped with the row
QueryFromSqlTuple(q) ==
    /\ queries[q].error = NoError
    /\ outcome' = Outcome("Query.from_sql_tuple",
                          from_sql_tuple(Heap, fieldObjs, queries[q],
                              Len(ToSqlFields(Heap, fieldObjs, queries[q]))
                                  + Len(queries[q]._agg_fields)),
                          q, <<FromSqlTupleFields(Heap, fieldObjs, queries[q])>>)
    /\ outcome' # outcome
    /\ UNCHANGED <<aliasVars, castVars, queryVars, joinables, columnRefs, MAKE_ALIAS, used>>

\* queries[q].sql_projection
QuerySqlProjection(q) ==
    /\ queries[q].error = NoError
    /\ outcome' = Outcome("Table.sql_projection", NoError, q,
                          <<sql_projection(Heap, fieldObjs, queries[q])>>)
    /\ outcome' # outcome
    /\ UNCHANGED <<aliasVars, castVars, queryVars, joinables, columnRefs, MAKE_ALIAS, used>>

RECURSIVE Handed(_, _)
\* the root table's columns got by get_column, each a field object: s = [h, objs]
Handed(s, decls) ==
    IF decls = <<>> THEN s
    ELSE LET r == get_column(s.h, 1, Head(decls).name)
         IN Handed([h |-> r.h,
                    objs |-> Append(s.objs,
                                [ColumnRefField(Head(decls), r.fresh[1].sql_alias)
                                    EXCEPT !.obj = r.col])],
                   Tail(decls))

\* a table whose columns were each got by get_column, and a CountField of its id
ProjectStart ==
    /\ \E root \in QueryRoots :
          LET s == Handed([h |-> [tables |-> <<NewJoinableTable(root)>>, cols |-> <<>>,
                                  next |-> 0, used |-> {}],
                           objs |-> <<>>],
                          TableColumns(root))
          IN /\ joinables = s.h.tables
             /\ columnRefs = s.h.cols
             /\ MAKE_ALIAS = s.h.next
             /\ used = s.h.used
             /\ fieldObjs = Append(s.objs, CountField(1))
    /\ outcome = Outcome("init", NoError, 0, <<>>)
    /\ queries = <<>>
    /\ columns = <<>>

----------------------------------------------------------------------------
(* The casts that are tried: one instance, one target type, one dialect *)

PrimInst(k) == [code |-> SqlName(Ty(k), "x"), type |-> Ty(k),
                subqueries |-> {}, elem |-> <<>>]

ListInst(t) == [code |-> [sql |-> "ListQuery"], type |-> ListOf(t),
                subqueries |-> {"l"}, elem |-> <<>>]

TableInst(cols) == [code |-> [sql |-> "TableName"], type |-> TableOf(cols),
                    subqueries |-> {"t"}, elem |-> <<>>]

Col(n, k) == [name |-> n, type |-> Ty(k)]

CastInsts ==
    {PrimInst(k) : k \in {"int", "float", "bool", "string", "t_id", "t_relation"}}
    \cup {ListInst(Ty(k)) : k \in {"int", "bool", "string"}}
    \cup {EmptyList}
    \cup {TableInst(cols) : cols \in { <<>>, <<Col("value", "int")>>,
                                       <<Col("n", "string")>>, <<Col("value", "bool")>>,
                                       <<Col("value", "int"), Col("n", "string")>> }}
    \cup {Aggregate(PrimInst(k)) : k \in {"int", "bool"}}
    \cup {[PrimInst(k) EXCEPT !.type = VectorizedOf(Ty(k))] : k \in {"int", "bool"}}

CastTargets ==
    {Ty(k) : k \in {"int", "float", "bool", "string", "t_id"}}
    \cup {ListOf(Ty(k)) : k \in {"int", "float", "string", "primitive"}}

CastStart ==
    /\ castIn \in CastInsts
    /\ castTo \in CastTargets \cup {castIn.type}
    /\ mysql \in BOOLEAN
    /\ castOut = <<>>

\* no cast is tried
CastIdle ==
    /\ castIn = EmptyList
    /\ castTo = EmptyList.type
    /\ mysql = FALSE
    /\ castOut = <<>>

DoCast ==
    /\ castOut = <<>>
    /\ castOut' = <<Cast(mysql, castIn.type, castTo, castIn)>>
    /\ UNCHANGED <<castIn, castTo, mysql>>
    /\ UNCHANGED <<aliasVars, joinVars, queryVars>>

\* no State is used
AliasIdle ==
    /\ states = <<>>
    /\ aliases = <<>>
    /\ lookup = NoLookup

----------------------------------------------------------------------------
(* Specifications *)

AliasInit == AliasStart /\ CastIdle /\ JoinIdle /\ QueryIdle
SpecAlias == AliasInit /\ [][AliasNext]_vars

SpecScope == AliasInit /\ [][ScopeNext]_vars

CastInit == CastStart /\ AliasIdle /\ JoinIdle /\ QueryIdle
CastNext == DoCast
SpecCast == CastInit /\ [][CastNext]_vars

Init == JoinStart /\ AliasIdle /\ CastIdle /\ QueryIdle
Next ==
    \/ \E name \in AttrNames(joinables[1].name) \cup TriedMethods : TableGetattr(name)
    \/ \E c \in 1..Len(columnRefs) :
          \E name \in AttrNames(Referred(columnRefs[c].col)) : ColumnGetattr(c, name)
    \/ TableToSql
Spec == Init /\ [][Next]_vars

\* get_column, getattr and to_sql of the columns, in any order
ColumnNext ==
    \/ \E name \in AttrNames(joinables[1].name) : TableGetattr(name)
    \/ \E c \in 1..Len(columnRefs) :
          \E name \in AttrNames(Referred(columnRefs[c].col)) : ColumnGetattr(c, name)
    \/ \E c \in 1..Len(columnRefs) : ColumnToSql(c)
SpecColumn == Init /\ [][ColumnNext]_vars

\* the tables of a compilation got through its columns, and the explicit
\* autojoins of two of them
ExplicitNext ==
    \/ \E name \in AttrNames(joinables[1].name) : TableGetattr(name)
    \/ \E c \in 1..Len(columnRefs) :
          \E name \in AttrNames(Referred(columnRefs[c].col)) : ColumnGetattr(c, name)
    \/ \E t1, t2 \in 1..Len(joinables) : ExplicitToSql(t1, t2)
SpecExplicit == Init /\ [][ExplicitNext]_vars

AddInit == AddStart /\ AliasIdle /\ CastIdle /\ QueryIdle
AddNext ==
    \E t \in 1..Len(joinables), table \in 1..Len(joinables), is_fwd \in BOOLEAN,
       col \in 1..Len(columnRefs) :
        CallAddAutojoin(t, table, is_fwd, col)
SpecAdd == AddInit /\ [][AddNext]_vars

QueryInit == QueryStart /\ AliasIdle /\ CastIdle
QueryNext ==
    \/ \E n \in 0..(MaxFields - FieldsGiven(queries)) :
          \E fields \in [1..n -> 1..Len(fieldObjs)] :
              \E agg_fields \in FieldLists(MaxFields - FieldsGiven(queries) - n) :
                  NewQuery(fields, agg_fields)
    \/ \E q \in 1..Len(queries) : GetColumns(q)
SpecQuery == QueryInit /\ [][QueryNext]_vars

ProjectInit == ProjectStart /\ AliasIdle /\ CastIdle
ProjectNext ==
    \/ \E n \in 0..(MaxFields - FieldsGiven(queries)) :
          \E fields \in [1..n -> 1..Len(fieldObjs)] :
              \E agg_fields \in FieldLists(MaxFields - FieldsGiven(queries) - n) :
                  NewQueryOfTable(fields, agg_fields)
    \/ \E q \in 1..Len(queries) :
          \E name \in AttrNames(joinables[1].name) : QueryGetColumn(q, name)
    \/ \E q \in 1..Len(queries) : QueryToSql(q)
    \/ \E q \in 1..Len(queries) : QueryFromSqlTuple(q)
    \/ \E q \in 1..Len(queries) : QuerySqlProjection(q)
SpecProject == ProjectInit /\ [][ProjectNext]_vars

----------------------------------------------------------------------------
(* Claims about the scope stack *)

\* the scopes of ns that define name with no scope above them defining it
Innermost(ns, name) ==
    {i \in 1..Len(ns) :
        /\ name \in DOMAIN ns[i]
        /\ \A j \in (i + 1)..Len(ns) : name \notin DOMAIN ns[j]}

\* what get_var gave is the binding of the innermost defining scope, and
\* pql_NameNotFound when there is none
LookupInnermost ==
    lookup.op = "get_var" =>
        IF Innermost(states[1].ns, lookup.name) = {}
        THEN lookup.error = "pql_NameNotFound"
        ELSE /\ lookup.error = ""
             /\ \A i \in Innermost(states[1].ns, lookup.name) :
                   lookup.value = states[1].ns[i][lookup.name]

\* what a step does to the stack: set_var binds the name in the innermost scope
\* and leaves the scopes under it and the other names alone, pop_scope removes
\* the innermost scope only, push_scope adds an empty one, get_var nothing
StackStep ==
    LET ns == states[1].ns
        after == states'[1].ns
    IN /\ (lookup'.op = "set_var" /\ lookup'.error = "") =>
              /\ Len(after) = Len(ns)
              /\ \A i \in 1..(Len(ns) - 1) : after[i] = ns[i]
              /\ after[Len(ns)] = SetItem(ns[Len(ns)], lookup'.name, lookup'.value)
       /\ (lookup'.op = "pop_scope" /\ lookup'.error = "") =>
              /\ after = SubSeq(ns, 1, Len(ns) - 1)
              /\ lookup'.scope = ns[Len(ns)]
       /\ lookup'.op = "push_scope" => after = Append(ns, EmptyScope)
       /\ (lookup'.op = "get_var" \/ lookup'.error # "") => after = ns

\* C11: after any sequence of push_scope, pop_scope and set_var, get_var(name)
\* returns the value name has in the innermost scope that defines it and raises
\* pql_NameNotFound when no scope defines it; set_var writes the innermost
\* scope only and pop_scope removes the innermost scope only.
C11_ScopeLookupShadows == []LookupInnermost /\ [][StackStep]_vars

\* a name that two scopes on the stack bind to different values was looked up
C11_Witness ==
    /\ lookup.op = "get_var"
    /\ lookup.error = ""
    /\ Len(states[1].ns) = 2
    /\ lookup.name \in DOMAIN states[1].ns[1]
    /\ lookup.name \in DOMAIN states[1].ns[2]
    /\ states[1].ns[1][lookup.name] # states[1].ns[2][lookup.name]

----------------------------------------------------------------------------
(* Claims about the casts *)

CastDone == castOut # <<>>

\* C9: casting an instance of type T to T succeeds and returns an instance whose
\* SQL fragment is the input's (no cast node is emitted), for every type T.
C9_CastToOwnTypeIsIdentity ==
    (CastDone /\ castTo = castIn.type) =>
        /\ castOut[1].ok
        /\ castOut[1].inst[1].code = castIn.code

\* the cast of a table to a list
TableToList == CastDone /\ castIn.type.k = "table" /\ castTo.k = "list"

\* what the cast of a table to list[B] must give
TableToListResult ==
    LET cols == castIn.type.elems
        r == castOut[1]
    IN IF Len(cols) # 1 THEN ~r.ok /\ r.error = "TypeError: Too many columns"
       ELSE IF ~TypeLe(cols[1].type, Elem(castTo))
            THEN ~r.ok /\ r.error = "TypeError: Elements not matching"
       ELSE /\ r.ok
            /\ r.inst[1].type = ListOf(cols[1].type)
            /\ r.inst[1].code.sql = "Select"
            /\ r.inst[1].code.table = castIn.code
            /\ r.inst[1].code.fields =
                   <<SqlColumnAlias(SqlName(cols[1].type, cols[1].name), "value")>>

\* C10: a table with exactly one column, of a subtype of B, casts to list[B] as
\* the projection of that column aliased 'value', typed list[column type]; any
\* other number of columns, or an incompatible column type, is a TypeError; the
\* input instance is never modified.
C10_TableToList ==
    /\ [](TableToList => TableToListResult)
    /\ [][castIn' = castIn]_vars

\* a one-column table was cast to a list of a proper supertype of its column
C10_Witness ==
    /\ TableToList
    /\ castOut[1].ok
    /\ castIn.type.elems[1].type # Elem(castTo)

----------------------------------------------------------------------------
(* Claims about join registration *)

\* C3: a table's active joins are only those of its relation and back-reference
\* columns that were dereferenced by name (get_column of a back-reference
\* column, getattr through a relation column), each in that column's direction;
\* a table none of whose columns was used has no join.
C3_JoinsOnlyForDereferencedColumns ==
    \A t \in 1..Len(joinables) :
        \A i \in 1..Len(joinables[t].joins) :
            LET j == joinables[t].joins[i]
                c == columnRefs[j.col]
            IN /\ c.table = t
               /\ <<t, c.col.name>> \in used
               /\ j.is_fwd <=> c.col.type.k = "RelationalType"
               /\ ~j.is_fwd <=> c.col.type.k = "BackRefType"

\* the root table has a join, and a relation or back-reference column that was
\* looked up or declared but not dereferenced, and has no join
C3_Witness ==
    /\ outcome.op = "ColumnRef.getattr"
    /\ Len(joinables[1].joins) = 1
    /\ \E decl \in SeqToSet(TableColumns(joinables[1].name)) :
          /\ Kept(decl)
          /\ <<1, decl.name>> \notin used

\* the joins of instance t whose table and direction are those of the i-th
SamePair(t, i) ==
    {k \in 1..Len(joinables[t].joins) :
        /\ joinables[t].joins[k].table = joinables[t].joins[i].table
        /\ joinables[t].joins[k].is_fwd = joinables[t].joins[i].is_fwd}

\* C4 (as claimed): in a table's active-join set, an (other table, direction)
\* pair is registered at most once.
C4_PairRegisteredOnce ==
    \A t \in 1..Len(joinables) :
        \A i \in 1..Len(joinables[t].joins) : SamePair(t, i) = {i}

\* C4 (amended): in a table's active-join set, an (other table, direction,
\* originating column) triple is registered at most once.
C4_TripleRegisteredOnce ==
    \A t \in 1..Len(joinables) :
        \A i, k \in 1..Len(joinables[t].joins) :
            i # k => ~JoinEq(Heap, joinables[t].joins[i], joinables[t].joins[k])

\* the root table holds the same (other table, direction) pair for two columns
C4_Witness ==
    /\ outcome.op = "add_autojoin"
    /\ \E i \in 1..Len(joinables[1].joins) : Cardinality(SamePair(1, i)) = 2

\* the join state a failed dereference must leave alone: the joins of the
\* tables and the joined / invoked flags of the columns there were
JoinStateKept ==
    /\ \A t \in 1..Len(joinables) : joinables'[t].joins = joinables[t].joins
    /\ \A c \in 1..Len(columnRefs) :
          /\ columnRefs'[c].joined = columnRefs[c].joined
          /\ columnRefs'[c].invoked = columnRefs[c].invoked

\* C8: a dereference that raises PreqlError_Attribute (Table.getattr,
\* ColumnRef.getattr of an unknown name) leaves the active joins and the
\* joined / invoked flags as they were before the call.
C8_FailedDereferenceKeepsJoinState ==
    [][outcome'.error = <<"PreqlError_Attribute">> => JoinStateKept]_vars

----------------------------------------------------------------------------
(* Claims about lowering an AutoJoin *)

LoweredRoot == outcome.op = "JoinableTable.to_sql"

\* the relation columns definition a declares that refer to definition b
RelationsTo(a, b) ==
    {c \in SeqToSet(TableColumns(a)) :
        c.type.k = "RelationalType" /\ c.type.table_name = b}

\* the candidate edges between definitions a and b, as <<side, column>>, under
\* the direction / name filter of the join
Edges(a, b, join) ==
    LET pass(c) == join.is_fwd \/ c.name = columnRefs[join.col].col.backref
    IN {<<1, c>> : c \in {c \in RelationsTo(a, b) : pass(c)}}
       \cup {<<2, c>> : c \in {c \in RelationsTo(b, a) : pass(c)}}

\* two candidates that are one column seen from both sides
Mirror(E) == \E c \in {e[2] : e \in E} : E = {<<1, c>>, <<2, c>>}

\* the n-th join of the root table is ambiguous
AmbiguousJoin(n) ==
    LET join == joinables[1].joins[n]
        E == Edges(joinables[1].name, joinables[join.table].name, join)
    IN Cardinality(E) > 1 /\ ~Mirror(E)

\* C1: lowering a table one of whose AutoJoins has more than one candidate edge
\* left (after the direction / name filter and the mirror collapse) fails with
\* the ambiguity error naming the two tables, and emits no join.
C1_AmbiguousJoinFails ==
    (LoweredRoot /\ \E n \in 1..Len(joinables[1].joins) : AmbiguousJoin(n)) =>
        /\ outcome.sql = <<>>
        /\ Len(outcome.error) = 3
        /\ outcome.error[1] = "More than 1 relation between"
        /\ \E n \in 1..Len(joinables[1].joins) :
              /\ AmbiguousJoin(n)
              /\ {outcome.error[2], outcome.error[3]} =
                     {joinables[1].name, joinables[joinables[1].joins[n].table].name}

\* Emp.dept refers to Dept and Dept.head refers to Emp: the join of Emp with
\* Dept was lowered
C1_Witness ==
    /\ LoweredRoot
    /\ joinables[1].name = "Emp"
    /\ Len(joinables[1].joins) = 1
    /\ joinables[joinables[1].joins[1].table].name = "Dept"
    /\ AmbiguousJoin(1)
    /\ outcome.error # NoError

\* definition d has a single relation column, and it refers to d itself
SelfReferencing(d) ==
    /\ Cardinality(RelationsTo(d, d)) = 1
    /\ \A c \in SeqToSet(TableColumns(d)) :
          c.type.k = "RelationalType" => c \in RelationsTo(d, d)

RECURSIVE JoinNodes(_)
\* the Join nodes of a lowered table
JoinNodes(sql) ==
    IF sql.sql # "Join" THEN {}
    ELSE {sql} \cup JoinNodes(sql.tables[1]) \cup JoinNodes(sql.tables[2])

RECURSIVE JoinsUnder(_)
\* the joins registered on instance t and on the tables joined to it
JoinsUnder(t) ==
    LET js == joinables[t].joins
        sub[n \in 0..Len(js)] == IF n = 0 THEN 0 ELSE sub[n - 1] + 1 + JoinsUnder(js[n].table)
    IN sub[Len(js)]

\* C2: for a table whose single relation column refers to the table itself,
\* lowering its join with itself, forward or reverse, raises nothing and gives
\* one join edge per AutoJoin: one Join node with one condition.
C2_SelfReferenceResolvesToOneEdge ==
    (LoweredRoot /\ SelfReferencing(joinables[1].name) /\ joinables[1].joins # <<>>) =>
        /\ outcome.error = NoError
        /\ Cardinality(JoinNodes(outcome.sql[1])) = JoinsUnder(1)
        /\ \A j \in JoinNodes(outcome.sql[1]) : Len(j.conds) = 1

\* Person joined with itself both ways (through parent and through children)
C2_Witness ==
    /\ LoweredRoot
    /\ SelfReferencing(joinables[1].name)
    /\ Len(joinables[1].joins) = 2
    /\ joinables[1].joins[1].is_fwd # joinables[1].joins[2].is_fwd
    /\ outcome.error = NoError

RECURSIVE BaseInst(_)
\* the table instance a table object is built on
BaseInst(x) == IF x.obj = "AutoJoin" THEN BaseInst(x.tables[1]) ELSE x.inst

\* the sql_alias instance i gives its column named n
InstAlias(i, n) == joinables[i].aliases[ColumnIndex(joinables[i].name, n)]

\* the Join node j joins the source of its AutoJoin's edge with the target: for
\* a forward join the table owning the originating relation column with the
\* table it refers to, for a reverse join the table declaring the relation
\* behind the back-reference with the table owning the back-reference
JoinAsClaimed(j) ==
    LET x == j.type
        c == columnRefs[x.col].col
        source == IF x.is_fwd THEN BaseInst(x.tables[1]) ELSE BaseInst(x.tables[2])
        target == IF x.is_fwd THEN BaseInst(x.tables[2]) ELSE BaseInst(x.tables[1])
        rel == IF x.is_fwd THEN c.name ELSE c.backref
    IN /\ HasColumn(joinables[source].name, rel)
       /\ ColumnNamed(joinables[source].name, rel).type.k = "RelationalType"
       /\ ColumnNamed(joinables[source].name, rel).type.table_name = joinables[target].name
       /\ j.conds = <<SqlCompare("=", <<SqlColumnRef(InstAlias(source, rel)),
                                        SqlColumnRef(InstAlias(target, n_id))>>)>>
       /\ BaseInst(j.tables[1].type) = (IF x.is_fwd THEN source ELSE target)
       /\ BaseInst(j.tables[2].type) = (IF x.is_fwd THEN target ELSE source)
       /\ j.join_op = (IF x.is_fwd THEN "" ELSE "left")

\* C12: every join emitted for an AutoJoin that resolved to one edge has the
\* one condition source.relation_column = target.id; a forward join lists
\* source then target and is an inner join (join_op ''), a reverse join lists
\* target then source and is a left join.
C12_EmittedJoinFollowsEdge ==
    (LoweredRoot /\ outcome.error = NoError) =>
        \A j \in JoinNodes(outcome.sql[1]) : JoinAsClaimed(j)

\* a table was lowered to a forward join and a reverse join
C12_Witness ==
    /\ LoweredRoot
    /\ outcome.error = NoError
    /\ \E j, k \in JoinNodes(outcome.sql[1]) : j.join_op = "" /\ k.join_op = "left"

----------------------------------------------------------------------------
(* Claims about the columns of a lowered Query *)

\* the field is typed as a back-reference and was not invoked
NeverInvoked(f) ==
    /\ fieldObjs[f].cls = "ColumnRef"
    /\ fieldObjs[f].decl[1].type.k = "BackRefType"
    /\ ~(fieldObjs[f].obj # 0 /\ columnRefs[fieldObjs[f].obj].invoked)

\* the projected fields of the query but the back-references never invoked,
\* then its aggregated fields
FinalFields(q) ==
    SelectSeq(queries[q]._fields, LAMBDA f : ~NeverInvoked(f)) \o queries[q]._agg_fields

\* the columns of the Select are the final fields, in order
LoweredFinalFields ==
    (outcome.op = "Query.to_sql" /\ outcome.error = NoError) =>
        /\ outcome.sql[2] = FinalFields(outcome.col)
        /\ Len(outcome.sql[1].fields) = Len(FinalFields(outcome.col))

\* the fields the row is decoded with are the final fields, in order
DecodedFinalFields ==
    outcome.op = "Query.from_sql_tuple" => outcome.sql[1] = FinalFields(outcome.col)

\* the fields of sql_projection are the final fields
ProjectedFinalFields ==
    outcome.op = "Table.sql_projection" =>
        {kv[2] : kv \in outcome.sql[1]} = SeqToSet(FinalFields(outcome.col))

\* C13: Query.to_sql puts a back-reference-typed field of the projected fields
\* in the column list iff the field was invoked before, and every other field
\* always; from_sql_tuple decodes with the same fields and sql_projection is
\* made of the same fields.
C13_LoweredFieldsFollowInvoked ==
    LoweredFinalFields /\ DecodedFinalFields /\ ProjectedFinalFields

----------------------------------------------------------------------------
(* Claims about explicit autojoins *)

\* the relation columns of table a that refer to table b
RelationColumnsTo(a, b) ==
    SelectSeq(TableColumns(a),
              LAMBDA c : c.type.k = "RelationalType" /\ c.type.table_name = b)

\* the two tables have one relation column between them: a has one to b, and
\* b none to a
OneRelationFrom(a, b) ==
    Len(RelationColumnsTo(a, b)) = 1 /\ Len(RelationColumnsTo(b, a)) = 0

\* C15: the AutoJoin that create_autojoin builds from two tables with exactly
\* one relation column between them (is_fwd True, no originating column) lowers
\* to the join of the two tables on that relation column.
C15_ExplicitAutoJoinLowers ==
    (/\ outcome.op = "create_autojoin.to_sql"
     /\ OneRelationFrom(joinables[outcome.col[1]].name, joinables[outcome.col[2]].name))
    => /\ outcome.error = NoError
       /\ outcome.sql[1].sql = "Join"
       /\ outcome.sql[1].conds =
              <<SqlCompare("=",
                  <<SqlColumnRef(InstAlias(outcome.col[1],
                        RelationColumnsTo(joinables[outcome.col[1]].name,
                                          joinables[outcome.col[2]].name)[1].name)),
                    SqlColumnRef(InstAlias(outcome.col[2], n_id))>>)>>

\* the explicit autojoin of two tables with one relation column between them
\* did not lower: self.col is None where its back-reference name is read
C15_ExplicitAutoJoinFails ==
    /\ outcome.op = "create_autojoin.to_sql"
    /\ OneRelationFrom(joinables[outcome.col[1]].name, joinables[outcome.col[2]].name)
    /\ outcome.error = <<"AttributeError">>

----------------------------------------------------------------------------
(* Claims about back-reference columns *)

IsBackRef(c) == columnRefs[c].col.type.k = "BackRefType"

\* an invoked back-reference ColumnRef has its backref table, and its join with
\* that table is among the joins of the table it belongs to
InvokedBackRefJoined ==
    \A c \in 1..Len(columnRefs) :
        (IsBackRef(c) /\ columnRefs[c].invoked) =>
            /\ columnRefs[c].backref # 0
            /\ JoinIn(Heap, [table |-> columnRefs[c].backref, is_fwd |-> FALSE, col |-> c],
                      columnRefs[c].table)

\* every back-reference ColumnRef was invoked when it was made
BackRefsInvoked == \A c \in 1..Len(columnRefs) : IsBackRef(c) => columnRefs[c].invoked

\* neither to_sql nor getattr of a column failed an assertion
NoAssertionFailed ==
    outcome.op \in {"ColumnRef.to_sql", "ColumnRef.getattr"} =>
        outcome.error # <<"AssertionError">>

\* C14: in every state, a back-reference ColumnRef that is invoked has its
\* backref table set and (backref table, False, the column) is in the joins of
\* its table; the back-reference columns got through get_column are all
\* invoked, so that the assertions of ColumnRef.to_sql and ColumnRef.getattr
\* hold in any sequence of get_column, getattr and to_sql.
C14_InvokedBackRefIsJoined ==
    InvokedBackRefJoined /\ BackRefsInvoked /\ NoAssertionFailed

\* to_sql of a back-reference column gave the id column of its backref table,
\* after getattr went through a back-reference column
C14_Witness ==
    /\ outcome.op = "ColumnRef.to_sql" /\ outcome.error = NoError
    /\ IsBackRef(outcome.col)
    /\ outcome.sql = <<SqlColumnRef(AliasOf(Heap, Joinable(columnRefs[outcome.col].backref),
                                            n_id))>>
    /\ \E c, d \in 1..Len(columnRefs) :
          IsBackRef(c) /\ columnRefs[d].pql_name # NoName
                       /\ columnRefs[d].table = columnRefs[c].backref

----------------------------------------------------------------------------
(* Claims about Query construction *)

\* the constructions given the field object f in their fields / agg_fields
Projecting(f) == {q \in 1..Len(queries) : f \in SeqToSet(queries[q].fields)}
Aggregating(f) == {q \in 1..Len(queries) : f \in SeqToSet(queries[q].agg_fields)}

BackRefFields == {f \in 1..Len(fieldObjs) : FieldType(fieldObjs, f) = "BackRefType"}

\* C5: constructing a Query with a back-reference typed field among its fields
\* raises TypeError; constructing it with that field among its agg_fields (and
\* no back-reference among its fields) raises nothing, and holds the field
\* wrapped in an Array.
C5_BackRefOnlyAggregated ==
    \A f \in BackRefFields :
        /\ \A q \in Projecting(f) : queries[q].error = <<"TypeError">>
        /\ \A q \in Aggregating(f) :
              ~Misplaced(fieldObjs, queries[q].fields) =>
                  /\ queries[q].error = NoError
                  /\ \E i \in 1..Len(queries[q]._agg_fields) :
                        LET a == fieldObjs[queries[q]._agg_fields[i]]
                        IN a.cls = "Array" /\ a.obj = f /\ a.sql_alias # NoName

\* one back-reference field was given to a query among its fields, which
\* raised, and to another among its agg_fields, which was constructed
C5_Witness ==
    \E f \in BackRefFields :
        /\ \E q \in Projecting(f) : queries[q].error = <<"TypeError">>
        /\ \E q \in Aggregating(f) : queries[q].error = NoError

\* the sql_alias of every field of queries[q], in order
QueryAliases(q) ==
    LET all == queries[q]._fields \o queries[q]._agg_fields
    IN [i \in 1..Len(all) |-> fieldObjs[all[i]].sql_alias]

\* C6: the SQL aliases of the fields and aggregated fields of a constructed
\* Query are pairwise distinct, at every moment after its construction.
C6_QueryAliasesDistinct ==
    \A q \in 1..Len(queries) :
        queries[q].error = NoError =>
            \A i, k \in 1..Len(QueryAliases(q)) :
                i # k => QueryAliases(q)[i] # QueryAliases(q)[k]

====
